---- MODULE Spec2Model ----
(***************************************************************************)
(* Model of the filecoin-upload-action context and reuse-resolution        *)
(* engine: the context store (context.js), the artifact channel helpers    *)
(* and the identity resolver (artifacts.js, build.js), the reuse resolver  *)
(* and the upload orchestration (upload.js, prepare-reuse.js) and the      *)
(* payment guard (filecoin.js).                                            *)
(*                                                                         *)
(* A pipeline p is one build execution followed by its upload execution.   *)
(* The artifact channel and the payment ledger are shared by all           *)
(* pipelines; every pipeline has its own workspace.                        *)
(***************************************************************************)
EXTENDS Integers, Sequences, FiniteSets, TLC

\* ------------------------------------------------------------------------
\* Bounds of the model
\* ------------------------------------------------------------------------
MaxExpiries == 1
MaxAmount == 3

\* ------------------------------------------------------------------------
\* JavaScript values
\* ------------------------------------------------------------------------
Undefined == "<undefined>"

Truthy(v) == v \notin {Undefined, ""}

Or(a, b) == IF Truthy(a) THEN a ELSE b

Max(a, b) == IF a > b THEN a ELSE b

\* ------------------------------------------------------------------------
\* Context store (context.js).  A context record is a function from keys
\* to string values; the file action-context/context.json is absent, holds
\* text that is not JSON, holds the JSON value null, holds a JSON array (val
\* maps its indices to its elements), or holds a record.
\* ------------------------------------------------------------------------
EmptyCtx == [k \in {} |-> ""]

NoFile == [state |-> "none", val |-> EmptyCtx]
CorruptFile == [state |-> "corrupt", val |-> EmptyCtx]
ScalarFile == [state |-> "scalar", val |-> EmptyCtx]
ArrayFile == [state |-> "array", val |-> [k \in {"0"} |-> "x"]]

Get(ctx, k) == IF k \in DOMAIN ctx THEN ctx[k] ELSE Undefined

\* { ...partial, ...existing }: a field that is already there wins
Spread_ExistingWins(existing, partial) ==
  [k \in (DOMAIN existing) \cup (DOMAIN partial) |->
     IF k \in DOMAIN existing THEN existing[k] ELSE partial[k]]

\* { ...existing, ...partial }
Spread(existing, partial) ==
  [k \in (DOMAIN existing) \cup (DOMAIN partial) |->
     IF k \in DOMAIN partial THEN partial[k] ELSE existing[k]]

\* A writer that puts null where the value is undefined, as JSON.stringify
\* does inside arrays
Stringify_Null(ctx) ==
  [k \in DOMAIN ctx |-> IF ctx[k] = Undefined THEN "null" ELSE ctx[k]]

\* JSON.stringify followed by JSON.parse: keys whose value is undefined
\* are not written.
Stringify(ctx) ==
  [k \in {j \in DOMAIN ctx : ctx[j] # Undefined} |-> ctx[k]]

\* The parsed value whenever it is truthy and typeof gives 'object', which
\* also holds for an array
loadContext(dir) ==
  IF dir.ctx.state \in {"ok", "array"} THEN dir.ctx.val ELSE EmptyCtx

\* The text appended to the file: a second document after the first is not
\* parsable JSON
saveContext_Append(dir, context) ==
  IF dir.ctx.state = "none"
    THEN [dir EXCEPT !.ctx = [state |-> "ok", val |-> Stringify(context)]]
    ELSE [dir EXCEPT !.ctx = CorruptFile]

saveContext(dir, context) ==
  [dir EXCEPT !.ctx = [state |-> "ok", val |-> Stringify(context)]]

\* The partial saved as the whole record
mergeAndSaveContext_Replace(dir, partial) == saveContext(dir, partial)

mergeAndSaveContext(dir, partial) ==
  saveContext(dir, Spread(loadContext(dir), partial))

\* context.js line 65: the record mergeAndSaveContext returns
Merged(dir, partial) == Spread(loadContext(dir), partial)

\* ------------------------------------------------------------------------
\* Workspace.  ctx, car, tmp, sub describe the directory action-context
\* (context.json, a top-level *.car file, the directory artifact.tmp, the
\* directory filecoin-pin-artifacts copied in from a result bundle); pin
\* says whether <workspace>/filecoin-pin-artifacts/upload.car exists.
\* ------------------------------------------------------------------------
EmptyDir == [ctx |-> NoFile, car |-> FALSE, tmp |-> FALSE, sub |-> FALSE]

EmptyWs == [ctx |-> NoFile, car |-> FALSE, tmp |-> FALSE, sub |-> FALSE,
            pin |-> FALSE]

DirOf(w) == [ctx |-> w.ctx, car |-> w.car, tmp |-> w.tmp, sub |-> w.sub]

WithDir(w, d) ==
  [ctx |-> d.ctx, car |-> d.car, tmp |-> d.tmp, sub |-> d.sub, pin |-> w.pin]

BuildCarPath == "action-context/build.car"
ArtifactCarPath == "filecoin-pin-artifacts/upload.car"
ArtifactMetaPath == "filecoin-pin-artifacts/upload.json"
ContextPath == "action-context/context.json"

\* access(path)
PathExists(w, path) ==
  \/ path = BuildCarPath /\ w.car
  \/ path = ArtifactCarPath /\ w.pin

contextWithCar(carPath) ==
  IF ~Truthy(carPath) THEN EmptyCtx
  ELSE [car_path |-> carPath, car_filename |-> "build.car"]

\* ------------------------------------------------------------------------
\* Artifact channel.  An artifact belongs to the workflow run that
\* published it.  top is the directory the files of the artifact sit in
\* (paths in an artifact are relative to the workspace); dir is the content
\* of an action-context bundle, meta the upload.json of a result bundle.
\* ------------------------------------------------------------------------
Artifact(name, run, top, dir, meta) ==
  [name |-> name, run |-> run, expired |-> FALSE, top |-> top,
   dir |-> dir, meta |-> meta]

\* artifact.uploadArtifact(name, files, workspace, ...)
uploadArtifact(ch, a) ==
  {b \in ch : ~(b.name = a.name /\ b.run = a.run)} \cup {a}

\* The artifacts of every run listed, whatever run is asked for
listArtifacts_AnyRun(ch, workflowRunId) == ch

\* artifact.listArtifacts({ findBy: { workflowRunId } })
listArtifacts(ch, workflowRunId) == {a \in ch : a.run = workflowRunId}

\* octokit.paginate(listArtifactsForRepo)
listArtifactsForRepo(ch) == ch

Named(arts, name) == {a \in arts : a.name = name}

\* Environment of a process: ACTIONS_RUNTIME_TOKEN with ACTIONS_RESULTS_URL,
\* GITHUB_TOKEN, GITHUB_REPOSITORY.
FullEnv == [runtimeToken |-> TRUE, token |-> TRUE, repo |-> TRUE]

ensureRuntimeToken(env) == env.runtimeToken

\* Number.parseInt(buildRunId, 10) is finite; run ids are numbers, 0 stands
\* for the empty string.
NaNRun == -1
IsFiniteRun(buildRunId) == buildRunId # NaNRun

\* Outcomes of the calls to the artifact service that an operation makes.
NetOk == "ok"
NetOutcomes == {"ok", "listFails", "downloadFails"}

resolveContextSourceDir(a) ==
  IF a.top = "action-context" THEN a.dir
  ELSE [ctx |-> NoFile, car |-> FALSE, tmp |-> FALSE, sub |-> TRUE]

materializeContextDir(w, sourceDir) == WithDir(w, sourceDir)

\* The first steps shared by restoreCache and downloadBuildArtifact: the
\* reason the lookup of `artifactName` in run `buildRunId` stops, or "ok".
FetchOutcome(artifactName, buildRunId, ch, env, net) ==
  IF ~env.repo \/ ~env.token \/ buildRunId = 0 THEN "missingInfo"
  ELSE IF ~IsFiniteRun(buildRunId) THEN "invalidRun"
  ELSE IF net = "listFails" THEN "listFails"
  ELSE IF Named(listArtifacts(ch, buildRunId), artifactName) = {} THEN "notFound"
  ELSE IF net = "downloadFails" THEN "downloadFails"
  ELSE IF \A a \in Named(listArtifacts(ch, buildRunId), artifactName) : a.expired
       THEN "downloadFails"
  ELSE "ok"

Fetched(artifactName, buildRunId, ch) ==
  CHOOSE a \in Named(listArtifacts(ch, buildRunId), artifactName) : ~a.expired

downloadBuildArtifact(w, artifactName, buildRunId, ch, env, net) ==
  IF ~ensureRuntimeToken(env) THEN [threw |-> TRUE, ws |-> w]
  ELSE IF FetchOutcome(artifactName, buildRunId, ch, env, net) # "ok"
       THEN [threw |-> TRUE, ws |-> w]
  ELSE [threw |-> FALSE,
        ws |-> materializeContextDir(w,
                 resolveContextSourceDir(Fetched(artifactName, buildRunId, ch)))]

CacheName(cacheKey) == "cache-" \o cacheKey
CacheKey(rootCid) == "filecoin-v1-" \o rootCid

\* A cache restore that takes the bundle of any workflow run
restoreCache_AnyRun(w, cacheKey, buildRunId, ch, env, net) ==
  LET live == {a \in Named(ch, CacheName(cacheKey)) : ~a.expired}
  IN IF ~ensureRuntimeToken(env) \/ net # "ok" \/ live = {}
       THEN [restored |-> FALSE, ws |-> w]
     ELSE [restored |-> TRUE,
           ws |-> materializeContextDir(w,
                    resolveContextSourceDir(CHOOSE a \in live : TRUE))]

restoreCache(w, cacheKey, buildRunId, ch, env, net) ==
  IF ~ensureRuntimeToken(env) THEN [restored |-> FALSE, ws |-> w]
  ELSE IF FetchOutcome(CacheName(cacheKey), buildRunId, ch, env, net) # "ok"
       THEN [restored |-> FALSE, ws |-> w]
  ELSE [restored |-> TRUE,
        ws |-> materializeContextDir(w,
                 resolveContextSourceDir(Fetched(CacheName(cacheKey), buildRunId, ch)))]

\* upload.js line 419: the name the result bundle is published under
ResultArtifactName(rootCid) == "filecoin-pin-" \o rootCid

\* The lookup under the name of the cache key
TargetName_CacheKey(rootCid) == "filecoin-pin-v1-" \o rootCid

\* upload.js line 85: the name tier 2 of the resolver looks for
TargetName(rootCid) == "filecoin-pin-" \o rootCid

\* ------------------------------------------------------------------------
\* Identity resolver.  An event payload: pull_request is the number of
\* event.pull_request (0: absent), head_commit the head commit message
\* (<<>>: absent; <<"Merge pull request #", n>> stands for a message that
\* holds that text followed by the digits of n), wf_pr and wf_id are
\* workflow_run.pull_requests[0].number and workflow_run.id (0: absent); fork
\* says that pull_request.head.repo differs from pull_request.base.repo.
\* ------------------------------------------------------------------------
NoEvent == [pull_request |-> 0, fork |-> FALSE, head_commit |-> <<>>, wf_pr |-> 0, wf_id |-> 0]

RunStr(runId) == IF runId = 0 THEN "" ELSE ToString(runId)

\* message.match(/Merge pull request #(\d+)/), then parseInt(match[1], 10);
\* 0: no match
MergeMatch(message) ==
  IF Len(message) = 2 /\ message[1] = "Merge pull request #" THEN message[2]
  ELSE 0

\* The resolver that looks at pull_request events only
determineArtifactName_PullRequestOnly(eventName, runId, manualOverride, event) ==
  IF Truthy(manualOverride) THEN manualOverride
  ELSE IF eventName = "pull_request" /\ event.pull_request # 0
    THEN "filecoin-build-pr-" \o ToString(event.pull_request)
  ELSE "filecoin-build-" \o RunStr(runId)

\* artifacts.js
determineArtifactName(eventName, runId, manualOverride, event) ==
  IF Truthy(manualOverride) THEN manualOverride
  ELSE LET prNumber ==
             IF eventName = "pull_request" /\ event.pull_request # 0
               THEN event.pull_request
             ELSE IF eventName = "pull_request_target" /\ event.pull_request # 0
               THEN event.pull_request
             ELSE IF eventName = "push" /\ event.head_commit # <<>>
               THEN MergeMatch(event.head_commit)
             ELSE IF eventName = "workflow_run" /\ event.wf_pr # 0
               THEN event.wf_pr
             ELSE 0
       IN IF prNumber # 0 THEN "filecoin-build-pr-" \o ToString(prNumber)
          ELSE "filecoin-build-" \o RunStr(runId)

\* build.js has its own determineArtifactName
determineArtifactNameBuild(eventName, runId, manualOverride, event) ==
  IF Truthy(manualOverride) THEN manualOverride
  ELSE IF eventName = "pull_request" /\ event.pull_request # 0
    THEN "filecoin-build-pr-" \o ToString(event.pull_request)
  ELSE "filecoin-build-" \o RunStr(runId)

\* upload.js: the id of the originating build run; 0 is the empty string
resolveBuildRunId(override, envRunId, event) ==
  IF override # 0 THEN override
  ELSE IF envRunId # 0 THEN envRunId
  ELSE IF event.wf_id # 0 THEN event.wf_id
  ELSE 0

\* ------------------------------------------------------------------------
\* Reuse resolver (upload.js prepareReuse).  threw says whether an error
\* leaves the resolver, t2 what tier 2 did: "skipped" (never listed),
\* "noToken", "listFails", "notListed", "expired" (listed only as expired),
\* "fetchFails" (listed, a call to the artifact service failed),
\* "lookupFails" (listed, the service answered, downloadBuildArtifact threw),
\* "wiped" (downloaded, then artifact.tmp was gone), "merged".
\* ------------------------------------------------------------------------
Miss(w, t2) == [found |-> FALSE, source |-> "null", ws |-> w, threw |-> FALSE, t2 |-> t2]

\* A tier 1 that asks only for the hash of the record
TierOne_HashOnly(w, rootCid) ==
  /\ w.ctx.state = "ok"
  /\ Get(w.ctx.val, "ipfs_root_cid") = rootCid

\* lines 65-76: the record in the workspace already describes an upload of
\* rootCid
TierOne(w, rootCid) ==
  /\ w.ctx.state = "ok"
  /\ Truthy(Get(w.ctx.val, "piece_cid"))
  /\ Truthy(Get(w.ctx.val, "data_set_id"))
  /\ Get(w.ctx.val, "ipfs_root_cid") = rootCid

\* The files of action-context/artifact.tmp: the directory is made by mkdir
\* and nothing is ever written into it.
TmpFiles == {}

\* The download made outside the try block: its error leaves the resolver
TierTwo_Rethrow(w, rootCid, buildRunId, ch, env, net) ==
  LET targetName == TargetName(rootCid)
      listed == Named(listArtifactsForRepo(ch), targetName)
      w1 == [w EXCEPT !.tmp = TRUE]
      dl == downloadBuildArtifact(w1, targetName, buildRunId, ch, env,
                                  IF net = "listRepoFails" THEN "ok" ELSE net)
  IN IF ~env.token \/ ~env.repo THEN Miss(w, "noToken")
     ELSE IF net = "listRepoFails" THEN Miss(w, "listFails")
     ELSE IF listed = {} THEN Miss(w, "notListed")
     ELSE IF \A a \in listed : a.expired THEN Miss(w, "expired")
     ELSE IF dl.threw
       THEN [found |-> FALSE, source |-> "null", ws |-> w1, threw |-> TRUE,
             t2 |-> IF net = "ok" THEN "lookupFails" ELSE "fetchFails"]
     ELSE IF ~dl.ws.tmp THEN Miss(dl.ws, "wiped")
     ELSE [found |-> TRUE, source |-> "artifact", ws |-> [dl.ws EXCEPT !.tmp = FALSE],
           threw |-> FALSE, t2 |-> "merged"]

TierTwo(w, rootCid, buildRunId, ch, env, net) ==
  LET targetName == TargetName(rootCid)
      listed == Named(listArtifactsForRepo(ch), targetName)
      w1 == [w EXCEPT !.tmp = TRUE]
      dl == downloadBuildArtifact(w1, targetName, buildRunId, ch, env,
                                  IF net = "listRepoFails" THEN "ok" ELSE net)
  IN IF ~env.token \/ ~env.repo THEN Miss(w, "noToken")
     ELSE IF net = "listRepoFails" THEN Miss(w, "listFails")
     ELSE IF listed = {} THEN Miss(w, "notListed")
     ELSE IF \A a \in listed : a.expired THEN Miss(w, "expired")
     ELSE IF dl.threw
       THEN Miss(w1, IF net = "ok" THEN "lookupFails" ELSE "fetchFails")
     ELSE IF ~dl.ws.tmp THEN Miss(dl.ws, "wiped")
     ELSE [found |-> TRUE, source |-> "artifact",
           ws |-> IF "upload.json" \in TmpFiles
                    THEN [mergeAndSaveContext(dl.ws,
                            [ipfs_root_cid |-> rootCid,
                             upload_status |-> "reused-artifact"])
                          EXCEPT !.tmp = FALSE]
                    ELSE [dl.ws EXCEPT !.tmp = FALSE],
           threw |-> FALSE, t2 |-> "merged"]

\* The artifact channel asked first, the local record only as a fallback
prepareReuse_ArtifactFirst(w, rootCid, buildRunId, ch, env, net) ==
  LET r == TierTwo(w, rootCid, buildRunId, ch, env, net)
  IN IF ~Truthy(rootCid) THEN Miss(w, "skipped")
     ELSE IF r.found THEN r
     ELSE IF TierOne(r.ws, rootCid)
       THEN [found |-> TRUE, source |-> "context", ws |-> r.ws, threw |-> FALSE,
             t2 |-> r.t2]
     ELSE r

prepareReuse(w, rootCid, buildRunId, ch, env, net) ==
  IF ~Truthy(rootCid) THEN Miss(w, "skipped")
  ELSE IF TierOne(w, rootCid)
    THEN [found |-> TRUE, source |-> "context", ws |-> w, threw |-> FALSE,
          t2 |-> "skipped"]
  ELSE TierTwo(w, rootCid, buildRunId, ch, env, net)

\* ------------------------------------------------------------------------
\* Payment guard (filecoin.js handlePayments).  Amounts are whole units.
\* ------------------------------------------------------------------------
NoCap == -1

\* computeTopUpForDuration of the payment library: what is missing to keep
\* `rate` per day alive for minDays days
computeTopUpForDuration(status, minDays) ==
  Max(0, status.rate * minDays - status.depositedAmount)

\* The top-up cut down to maxBalance itself, whatever is already deposited
RequiredTopUp_ClampToCap(status, minDays, maxBalance) ==
  LET topUp == IF minDays > 0 THEN computeTopUpForDuration(status, minDays) ELSE 0
      requiredTopUp == Max(0, topUp)
  IN IF maxBalance # NoCap /\ maxBalance > 0 /\ requiredTopUp > maxBalance
       THEN maxBalance
     ELSE requiredTopUp

\* lines 64-101: the top-up after the balance cap
RequiredTopUp(status, minDays, maxBalance) ==
  LET topUp == IF minDays > 0 THEN computeTopUpForDuration(status, minDays) ELSE 0
      requiredTopUp == Max(0, topUp)
  IN IF maxBalance # NoCap /\ maxBalance > 0
       THEN IF status.depositedAmount >= maxBalance THEN 0
            ELSE IF status.depositedAmount + requiredTopUp > maxBalance
              THEN IF maxBalance - status.depositedAmount <= 0 THEN 0
                   ELSE maxBalance - status.depositedAmount
            ELSE requiredTopUp
     ELSE requiredTopUp

\* The cap tested for truthiness: a cap of 0 counts as no cap
ExceedsMaxTopUp_Truthy(requiredTopUp, maxTopUp) ==
  requiredTopUp > 0 /\ maxTopUp # NoCap /\ maxTopUp # 0 /\ requiredTopUp > maxTopUp

\* lines 103-109
ExceedsMaxTopUp(requiredTopUp, maxTopUp) ==
  requiredTopUp > 0 /\ maxTopUp # NoCap /\ requiredTopUp > maxTopUp

LedgerFailures == {"none", "allowances", "status", "deposit", "statusAfter"}

\* The whole of handlePayments against a ledger that no one else touches.
\* threw: "none", "ledger" or "cap"; deposited: what depositUSDFC moved.
handlePayments(status, options, fail) ==
  LET req == RequiredTopUp(status, options.minDays, options.maxBalance)
  IN IF fail \in {"allowances", "status"}
       THEN [threw |-> "ledger", deposited |-> 0, required |-> 0]
     ELSE IF ExceedsMaxTopUp(req, options.maxTopUp)
       THEN [threw |-> "cap", deposited |-> 0, required |-> req]
     ELSE IF req > 0 /\ fail = "deposit"
       THEN [threw |-> "ledger", deposited |-> 0, required |-> req]
     ELSE IF req > 0 /\ fail = "statusAfter"
       THEN [threw |-> "ledger", deposited |-> req, required |-> req]
     ELSE [threw |-> "none", deposited |-> req, required |-> req]

\* ------------------------------------------------------------------------
\* State
\* ------------------------------------------------------------------------
VARIABLES
  cfg,       \* what the repository's workflows fix: topology, re-run, payment inputs
  chan,      \* the artifact channel: a set of artifacts
  balance,   \* the deposited balance of the payment ledger
  ws,        \* ws[p]: the workspace of the process pipeline p is running
  ex,        \* ex[p]: position and local values of pipeline p
  started,   \* number of upload executions started so far
  overlap,   \* an upload execution started while another was running
  expiries,  \* number of lapses so far: artifacts expired, deposits used up
  call       \* the last call of a function applied on its own

vars == <<cfg, chan, balance, ws, ex, started, overlap, expiries, call>>

Pipes == {1, 2}
Hashes == {"h1", "h2"}
Triggers == {"pull_request", "fork_pull_request", "push_merge", "push"}
PrNumber == 7
Rate == 1

\* Payment inputs of the upload workflow
NoCaps == [minDays |-> 2, maxBalance |-> NoCap, maxTopUp |-> NoCap]

PayOptions ==
  {NoCaps,
   [minDays |-> 2, maxBalance |-> NoCap, maxTopUp |-> 1],
   [minDays |-> 2, maxBalance |-> 1, maxTopUp |-> 1]}

\* "split": build and upload are two workflows, the upload is triggered by
\* workflow_run; "same": they are two jobs of one workflow run and the
\* upload job passes build_run_id; "all": one process in mode all.  rerun:
\* the second pipeline is a re-run of the first workflow run(s), with the
\* same run ids.  build: the build.js the action ships, "build.js" (its own
\* name resolver) or "fork-aware" (the one that marks fork pull requests).
\* trigger: the event the build workflow is triggered by.  other: the
\* second pipeline builds other content than the first.  forged: the code
\* of the pull request, which the build workflow runs, writes a piece_cid
\* and a data_set_id into the context record before the bundle is published.
\* nohash: that code leaves a context.json that cannot be parsed.
Configs ==
  {c \in [topology : {"split", "same", "all"}, rerun : BOOLEAN, pay : PayOptions,
          build : {"build.js", "fork-aware"}, trigger : Triggers,
          other : BOOLEAN, forged : BOOLEAN, nohash : BOOLEAN] :
     /\ c.other => (c.topology = "split" /\ c.build = "build.js" /\ c.pay = NoCaps
                     /\ c.trigger = "pull_request")
     /\ c.forged => (c.topology = "split" /\ c.build = "build.js" /\ c.pay = NoCaps
                      /\ c.trigger = "pull_request" /\ ~c.other)
     /\ c.nohash => (c.topology = "split" /\ c.build = "build.js" /\ c.pay = NoCaps
                      /\ c.trigger = "pull_request" /\ ~c.other /\ ~c.forged)
     /\ c.build = "fork-aware" => c.topology # "all"
     /\ c.rerun => c.topology = "same"
     /\ c.trigger = "fork_pull_request" => c.topology = "split"
     /\ c.pay # NoCaps => (c.build = "build.js" /\ c.topology # "same")}

BuildRun(p) == IF cfg.rerun THEN 11 ELSE 10 * p + 1
UpRun(p) == IF cfg.topology = "split" THEN BuildRun(p) + 1 ELSE BuildRun(p)

PullRequestTriggers == {"pull_request", "fork_pull_request"}

\* The event payload of a build with the given trigger
BuildEventName(trigger) ==
  IF trigger \in PullRequestTriggers THEN "pull_request" ELSE "push"

BuildEvent(trigger) ==
  [pull_request |-> IF trigger \in PullRequestTriggers THEN PrNumber ELSE 0,
   fork |-> trigger = "fork_pull_request",
   head_commit |-> IF trigger = "push_merge" THEN <<"Merge pull request #", PrNumber>>
                   ELSE IF trigger = "push" THEN <<"fix typo">>
                   ELSE <<>>,
   wf_pr |-> 0, wf_id |-> 0]

\* The workflow_run event that wraps a completed build run
WorkflowRunEvent(trigger, buildRun) ==
  [pull_request |-> 0, fork |-> FALSE, head_commit |-> <<>>,
   wf_pr |-> IF trigger \in PullRequestTriggers THEN PrNumber ELSE 0,
   wf_id |-> buildRun]

UploadEventName(p) ==
  IF cfg.topology = "split" THEN "workflow_run" ELSE BuildEventName(ex[p].trigger)

UploadEvent(p) ==
  IF cfg.topology = "split" THEN WorkflowRunEvent(ex[p].trigger, BuildRun(p))
  ELSE BuildEvent(ex[p].trigger)

InitEx ==
  [pc |-> "build", trigger |-> "none", hash |-> "", published |-> "",
   name |-> "", buildRunId |-> 0, ctx |-> EmptyCtx, rootCid |-> "",
   found |-> FALSE, source |-> "null", t1 |-> FALSE, t2 |-> "none",
   carPath |-> "", req |-> 0, payThrew |-> "none", deposited |-> 0,
   payStatus |-> NoCap, paid |-> FALSE, status |-> "", order |-> 0,
   fatal |-> "", session |-> FALSE, cleaned |-> FALSE, payCalls |-> 0,
   cache |-> "none", fetched |-> FALSE, bundle |-> FALSE]

NoCall == [fn |-> "none"]

Init ==
  /\ cfg \in Configs
  /\ chan = {}
  /\ balance = 0
  /\ ws = [p \in Pipes |-> EmptyWs]
  /\ ex = [p \in Pipes |-> InitEx]
  /\ started = 0
  /\ overlap = FALSE
  /\ expiries = 0
  /\ call = NoCall

Uploading(p) ==
  ex[p].pc \notin {"build", "built", "done", "failed"}

\* run.mjs main(): the run metadata merged before the mode is dispatched
RunMetadata(eventName, runId, mode) ==
  [event_name |-> eventName, run_id |-> RunStr(runId), mode |-> mode]

\* The mode input of the process that runs the given stage of a pipeline
Mode(stage) == IF cfg.topology = "all" THEN "all" ELSE stage

\* run.mjs main(), lines 57-87: an error thrown by the mode handler is
\* caught, cleanupSynapse is called (it swallows its own error, filecoin.js
\* lines 201-207), the error is thrown again and the process exits with
\* code 1.  A failed PR comment ends the process inside commentOnPR, so the
\* handler of main() never runs.
main(e) ==
  IF e.pc = "failed" /\ e.fatal # "comment" THEN [e EXCEPT !.cleaned = TRUE] ELSE e

\* ------------------------------------------------------------------------
\* Build execution (build.js runBuild, after main() of run.mjs)
\* ------------------------------------------------------------------------
Env == FullEnv
ManualOverride == ""

\* The walletPrivateKey input: the build workflow holds no secret
walletPrivateKey(mode) == IF mode = "build" THEN "" ELSE "0xkey"

UploadPhase == "upload"

\* The phase runBuild passes to parseInputs, called without the wallet check
BuildPhase_Upload == "upload"

\* build.js line 139
BuildPhase == "compute"

\* inputs.js parseInputs, lines 96-100
WalletMissing(phase, wallet) == phase # "compute" /\ ~Truthy(wallet)

\* updateBuildMetadata
BuildMetadata(artifactName, buildRunId, eventName, event) ==
  IF event.pull_request # 0
    THEN [artifact_name |-> artifactName, build_run_id |-> RunStr(buildRunId),
          event_name |-> eventName, pr |-> ToString(event.pull_request)]
    ELSE [artifact_name |-> artifactName, build_run_id |-> RunStr(buildRunId),
          event_name |-> eventName]

\* normalizeContextForArtifact
normalizeContextForArtifact(w) ==
  mergeAndSaveContext([w EXCEPT !.car = TRUE], contextWithCar(BuildCarPath))

\* The workspace of the build when it publishes its bundle
BuiltWorkspace(w, artifactName, runId, eventName, event, ipfsRootCid, mode) ==
  LET w0 == mergeAndSaveContext(w, RunMetadata(eventName, runId, mode))
      w1 == mergeAndSaveContext(w0, BuildMetadata(artifactName, runId, eventName, event))
      w2 == normalizeContextForArtifact(w1)
  IN mergeAndSaveContext(w2, [ipfs_root_cid |-> ipfsRootCid])

\* The fork-aware build.js: the upload status it records
BuildUploadStatus(event) ==
  IF event.pull_request # 0 /\ event.fork THEN "fork-pr-blocked" ELSE "build-only"

\* The fork-aware build.js: the workspace when it publishes its bundle;
\* createCarFile returns no carSize
BuiltWorkspaceForkAware(w, artifactName, runId, eventName, event, ipfsRootCid, mode) ==
  LET w0 == mergeAndSaveContext(w, RunMetadata(eventName, runId, mode))
      w1 == mergeAndSaveContext(w0, BuildMetadata(artifactName, runId, eventName, event))
      w2 == normalizeContextForArtifact(w1)
  IN mergeAndSaveContext(w2, [ipfs_root_cid |-> ipfsRootCid, car_size |-> Undefined,
                              upload_status |-> BuildUploadStatus(event)])

\* What untrusted code of a pull request adds to the record of its build
ForgedFields == [piece_cid |-> "piece-forged", data_set_id |-> "ds-forged"]

\* The workspace the build workflow publishes: the one the build left, or
\* that one after the code of the pull request wrote into its record
UntrustedWorkspace(w) ==
  IF cfg.forged THEN mergeAndSaveContext(w, ForgedFields)
  ELSE IF cfg.nohash THEN [w EXCEPT !.ctx = CorruptFile]
  ELSE w

\* uploadBuildArtifact: the entries of action-context under artifactName
uploadBuildArtifact(ch, w, artifactName, run) ==
  uploadArtifact(ch, Artifact(artifactName, run, "action-context", DirOf(w), EmptyCtx))

\* A re-run of a workflow run starts when that run has finished.
MayBuild(p) ==
  /\ \A q \in Pipes : q < p => ex[q].pc # "build"
  /\ (cfg.rerun /\ cfg.topology = "same") =>
       \A q \in Pipes : q < p => ex[q].pc \in {"done", "failed"}

\* createCarFile: the root CID of the content pipeline p packs
ContentHash(p) == IF cfg.other /\ p # 1 THEN "h2" ELSE "h1"

runBuild(p) ==
  /\ ex[p].pc = "build"
  /\ MayBuild(p)
  /\ \E trigger \in {cfg.trigger}, hash \in Hashes, published \in BOOLEAN :
       /\ hash = ContentHash(p)
       /\ LET eventName == BuildEventName(trigger)
              event == BuildEvent(trigger)
              mode == Mode("build")
              artifactName ==
                IF cfg.build = "build.js"
                  THEN determineArtifactNameBuild(eventName, BuildRun(p),
                                                  ManualOverride, event)
                  ELSE determineArtifactName(eventName, BuildRun(p),
                                             ManualOverride, event)
              w == UntrustedWorkspace(
                     IF cfg.build = "build.js"
                       THEN BuiltWorkspace(EmptyWs, artifactName, BuildRun(p), eventName,
                                           event, hash, mode)
                       ELSE BuiltWorkspaceForkAware(EmptyWs, artifactName, BuildRun(p),
                                                    eventName, event, hash, mode))
              uploadStatus == IF cfg.build = "build.js" THEN "build-only"
                              ELSE BuildUploadStatus(event)
          IN IF WalletMissing(BuildPhase, walletPrivateKey(mode))
               THEN /\ ws' = ws
                    /\ chan' = chan
                    /\ ex' = [ex EXCEPT ![p] = main([@ EXCEPT !.pc = "failed",
                                !.fatal = "config",
                                !.trigger = trigger, !.hash = hash])]
             ELSE IF published /\ ensureRuntimeToken(Env)
               THEN /\ ws' = [ws EXCEPT ![p] = w]
                    /\ chan' = uploadBuildArtifact(chan, w, artifactName, BuildRun(p))
                    /\ ex' = [ex EXCEPT ![p] = [@ EXCEPT !.pc = "built",
                                !.trigger = trigger, !.hash = hash,
                                !.published = artifactName,
                                !.status = uploadStatus]]
             ELSE /\ ws' = [ws EXCEPT ![p] = w]
                  /\ chan' = chan
                  /\ ex' = [ex EXCEPT ![p] = main([@ EXCEPT !.pc = "failed",
                              !.fatal = "buildArtifact",
                              !.trigger = trigger, !.hash = hash])]
  /\ UNCHANGED <<cfg, balance, started, overlap, expiries, call>>

\* ------------------------------------------------------------------------
\* Upload execution (upload.js runUpload, after main() of run.mjs)
\* ------------------------------------------------------------------------
\* A re-run of the upload run starts when the first attempt has finished.
\* Pipelines differ in their run ids only: the upload executions are taken
\* to start in the order of their pipelines.
MayUpload(p) ==
  /\ cfg.rerun => \A q \in Pipes : q < p => ex[q].pc \in {"done", "failed"}
  /\ \A q \in Pipes : q < p => ex[q].pc \notin {"build", "built"}

\* The build_run_id inputs a workflow of the given topology can pass
BuildRunIdInputs(p) ==
  IF cfg.topology = "split" THEN {0}
  ELSE IF cfg.topology = "same" THEN {BuildRun(p)}
  ELSE {0, BuildRun(p)}

\* lines 171-189: inputs, event, build run id, artifact name.  In mode all
\* the process goes on in the workspace the build step left.
ResolveArtifact(p) ==
  /\ ex[p].pc = "built"
  /\ MayUpload(p)
  /\ \E override \in BuildRunIdInputs(p) :
       LET eventName == UploadEventName(p)
           event == UploadEvent(p)
           mode == Mode("upload")
           buildRunId == resolveBuildRunId(override, 0, event)
           artifactName == determineArtifactName(eventName, UpRun(p), ManualOverride, event)
       IN /\ ws' = [ws EXCEPT ![p] =
                      IF mode = "all" THEN @
                      ELSE mergeAndSaveContext(EmptyWs,
                                               RunMetadata(eventName, UpRun(p), mode))]
          /\ ex' = [ex EXCEPT ![p] = main([@ EXCEPT
                      !.pc = IF WalletMissing(UploadPhase, walletPrivateKey(mode))
                                \/ buildRunId = 0
                               THEN "failed" ELSE "download",
                      !.fatal = IF WalletMissing(UploadPhase, walletPrivateKey(mode))
                                  THEN "config"
                                ELSE IF buildRunId = 0 THEN "noBuildRunId" ELSE @,
                      !.name = artifactName, !.buildRunId = buildRunId,
                      !.status = "", !.order = started + 1])]
  /\ started' = started + 1
  /\ overlap' = (overlap \/ \E q \in Pipes : q # p /\ Uploading(q))
  /\ UNCHANGED <<cfg, chan, balance, expiries, call>>

\* Lines 214-256 without the blocked branch
AfterDownload_NoBlock(ctx) ==
  IF ~Truthy(Get(ctx, "ipfs_root_cid")) THEN "failed" ELSE "restore"

\* lines 214-256: where the execution goes once the build context is loaded
AfterDownload(ctx) ==
  IF Get(ctx, "upload_status") = "fork-pr-blocked" THEN "done"
  ELSE IF ~Truthy(Get(ctx, "ipfs_root_cid")) THEN "failed"
  ELSE "restore"

\* The build bundle fetched and its context used without a look at its hash
DownloadBuild_NoCheck(p) ==
  /\ ex[p].pc = "download"
  /\ LET dl == downloadBuildArtifact(ws[p], ex[p].name, ex[p].buildRunId, chan, Env, NetOk)
         ctx == loadContext(dl.ws)
     IN /\ ~dl.threw
        /\ ws' = [ws EXCEPT ![p] = dl.ws]
        /\ ex' = [ex EXCEPT ![p] = [@ EXCEPT !.fetched = TRUE, !.ctx = ctx,
                     !.rootCid = Or(Get(ctx, "ipfs_root_cid"), ""), !.pc = "restore"]]
  /\ UNCHANGED <<cfg, chan, balance, started, overlap, expiries, call>>

\* lines 191-255: fetch the build bundle, load the context, blocked / no hash
DownloadBuild(p) ==
  /\ ex[p].pc = "download"
  /\ \E net \in NetOutcomes :
       LET dl == downloadBuildArtifact(ws[p], ex[p].name, ex[p].buildRunId, chan, Env, net)
           ctx == loadContext(dl.ws)
       IN IF dl.threw
            THEN /\ ws' = ws
                 /\ ex' = [ex EXCEPT ![p] = main([@ EXCEPT !.pc = "failed",
                             !.fatal = "download"])]
          ELSE /\ ws' = [ws EXCEPT ![p] = dl.ws]
               /\ ex' = [ex EXCEPT ![p] = main([@ EXCEPT
                    !.fetched = TRUE,
                    !.ctx = ctx,
                    !.rootCid = Or(Get(ctx, "ipfs_root_cid"), ""),
                    !.status = IF Get(ctx, "upload_status") = "fork-pr-blocked"
                                 THEN "fork-pr-blocked" ELSE "",
                    !.fatal = IF AfterDownload(ctx) = "failed" THEN "noRootCid" ELSE @,
                    !.pc = AfterDownload(ctx)])]
  /\ UNCHANGED <<cfg, chan, balance, started, overlap, expiries, call>>

\* lines 258-267
RestoreCache(p) ==
  /\ ex[p].pc = "restore"
  /\ \E net \in NetOutcomes :
       LET r == restoreCache(ws[p], CacheKey(ex[p].rootCid), ex[p].buildRunId, chan, Env, net)
       IN /\ ws' = [ws EXCEPT ![p] = r.ws]
          /\ ex' = [ex EXCEPT ![p] = [@ EXCEPT
               !.ctx = IF r.restored THEN loadContext(r.ws) ELSE @,
               !.cache = IF r.restored THEN "hit" ELSE "miss",
               !.pc = "reuse"]]
  /\ UNCHANGED <<cfg, chan, balance, started, overlap, expiries, call>>

\* lines 356-370: the CAR file of the fresh upload; "" when none is found
FindCar(w, ctx) ==
  IF Truthy(Get(ctx, "car_path")) /\ PathExists(w, Get(ctx, "car_path"))
    THEN Get(ctx, "car_path")
  ELSE IF w.car THEN BuildCarPath
  ELSE ""

\* lines 269-298 and 351-375: the resolver, then the outputs of a reuse or
\* the CAR file of a fresh upload
PrepareReuse(p) ==
  /\ ex[p].pc = "reuse"
  /\ \E net \in NetOutcomes \cup {"listRepoFails"} :
       LET r == prepareReuse(ws[p], ex[p].rootCid, ex[p].buildRunId, chan, Env, net)
           carPath == FindCar(r.ws, ex[p].ctx)
       IN /\ ws' = [ws EXCEPT ![p] = r.ws]
          /\ ex' = [ex EXCEPT ![p] = main([@ EXCEPT
               !.found = r.found, !.source = r.source, !.t2 = r.t2,
               !.t1 = TierOne(ws[p], ex[p].rootCid),
               !.ctx = IF r.found THEN loadContext(r.ws) ELSE @,
               !.status = IF ~r.found THEN ""
                          ELSE IF r.source = "artifact" THEN "reused-artifact"
                          ELSE "reused-cache",
               !.carPath = IF r.found \/ r.threw THEN "" ELSE carPath,
               !.fatal = IF r.threw THEN "resolver"
                         ELSE IF ~r.found /\ carPath = "" THEN "noCar"
                         ELSE @,
               !.pc = IF r.threw THEN "failed"
                      ELSE IF r.found THEN "rpay"
                      ELSE IF carPath = "" THEN "failed"
                      ELSE "pay"])]
  /\ UNCHANGED <<cfg, chan, balance, started, overlap, expiries, call>>

\* The payment_status that is merged into the context
PaymentStatus(depositedAmount) ==
  [payment_status |-> IF depositedAmount # 0 THEN ToString(depositedAmount) ELSE "0"]

\* lines 313-348: the end of a reuse; payStatus is NoCap when handlePayments threw
FinishReuse(w, payStatus) ==
  IF payStatus # NoCap THEN mergeAndSaveContext(w, PaymentStatus(payStatus)) ELSE w

\* The fresh path catching the error as the reuse path does
AfterPaymentThrow_Caught(pc) == IF pc \in {"pay", "deposit"} THEN "publish" ELSE "comment"

\* What a throw of handlePayments leads to: fatal on the fresh path (line
\* 377), a warning on the reuse path (lines 307-309)
AfterPaymentThrow(pc) == IF pc \in {"pay", "deposit"} THEN "failed" ELSE "comment"

\* The reuse path going on into the fresh path after its balance check
AfterPayment_FallThrough(pc) == IF pc \in {"pay", "deposit"} THEN "publish" ELSE "pay"

\* Where handlePayments returns to: the publish (line 379) or the end of
\* the reuse (lines 313-348)
AfterPayment(pc) == IF pc \in {"pay", "deposit"} THEN "publish" ELSE "comment"

\* The execution after handlePayments threw with the given error: the
\* reuse path runs cleanupSynapse in its finally block (line 310)
PaymentThrown(e, threw) ==
  main([e EXCEPT !.payThrew = threw,
                 !.fatal = IF AfterPaymentThrow(e.pc) = "failed" THEN threw ELSE @,
                 !.cleaned = IF e.pc \in {"rpay", "rdeposit"} THEN TRUE ELSE @,
                 !.pc = AfterPaymentThrow(e.pc)])

\* The execution after handlePayments returned
PaymentReturned(e, depositedAmount) ==
  [e EXCEPT !.payStatus = depositedAmount,
            !.cleaned = IF e.pc \in {"rpay", "rdeposit"} THEN TRUE ELSE @,
            !.pc = AfterPayment(e.pc)]

\* An upload that goes to the publish without calling handlePayments
PayCheck_Skipped(p) ==
  /\ ex[p].pc \in {"pay", "rpay"}
  /\ ex' = [ex EXCEPT ![p] = [@ EXCEPT !.session = TRUE, !.pc = AfterPayment("pay")]]
  /\ UNCHANGED <<cfg, chan, balance, ws, started, overlap, expiries, call>>

\* initializeSynapse, then handlePayments up to the top-up cap (filecoin.js
\* lines 55-109)
PayCheck(p) ==
  /\ ex[p].pc \in {"pay", "rpay"}
  /\ \E fail \in {"none", "init", "allowances", "status"} :
       LET status == [depositedAmount |-> balance, rate |-> Rate]
           req == RequiredTopUp(status, cfg.pay.minDays, cfg.pay.maxBalance)
           threw == IF fail # "none" THEN "ledger"
                    ELSE IF ExceedsMaxTopUp(req, cfg.pay.maxTopUp) THEN "cap"
                    ELSE "none"
           e == [ex[p] EXCEPT !.session = (@ \/ fail # "init"),
                              !.payCalls = IF fail # "init" THEN @ + 1 ELSE @]
       IN IF threw # "none"
            THEN /\ ex' = [ex EXCEPT ![p] = PaymentThrown(e, threw)]
                 /\ ws' = ws
          ELSE IF req > 0
            THEN /\ ex' = [ex EXCEPT ![p] = [e EXCEPT !.req = req,
                             !.pc = IF ex[p].pc = "pay" THEN "deposit" ELSE "rdeposit"]]
                 /\ ws' = ws
          ELSE /\ ex' = [ex EXCEPT ![p] = PaymentReturned(e, balance)]
               /\ ws' = [ws EXCEPT ![p] =
                           IF ex[p].pc = "rpay" THEN FinishReuse(@, balance) ELSE @]
  /\ UNCHANGED <<cfg, chan, balance, started, overlap, expiries, call>>

\* depositUSDFC and the second getPaymentStatus (filecoin.js lines 111-116)
PayDeposit(p) ==
  /\ ex[p].pc \in {"deposit", "rdeposit"}
  /\ \E fail \in {"none", "deposit", "statusAfter"} :
       LET moved == IF fail = "deposit" THEN 0 ELSE ex[p].req
           e == [ex[p] EXCEPT !.deposited = @ + moved]
       IN /\ balance' = balance + moved
          /\ IF fail # "none"
               THEN /\ ex' = [ex EXCEPT ![p] = PaymentThrown(e, "ledger")]
                    /\ ws' = ws
             ELSE /\ ex' = [ex EXCEPT ![p] = PaymentReturned(e, balance + moved)]
                  /\ ws' = [ws EXCEPT ![p] =
                              IF ex[p].pc = "rdeposit" THEN FinishReuse(@, balance + moved)
                              ELSE @]
  /\ UNCHANGED <<cfg, chan, started, overlap, expiries, call>>

PieceCid(rootCid) == "piece-" \o rootCid
DataSetId == "ds-1"

\* The paid publish behind a lock on the content hash: it waits while
\* another execution has published the same hash
UploadCarToFilecoin_Locked(p) ==
  /\ ex[p].pc = "publish"
  /\ \A q \in Pipes \ {p} : ~(ex[q].paid /\ ex[q].rootCid = ex[p].rootCid)
  /\ \E ok \in BOOLEAN :
       IF ok
         THEN /\ ws' = [ws EXCEPT ![p] =
                   mergeAndSaveContext([@ EXCEPT !.pin = TRUE],
                     Spread([piece_cid |-> PieceCid(ex[p].rootCid),
                             data_set_id |-> DataSetId,
                             upload_status |-> "uploaded",
                             metadata_path |-> ArtifactMetaPath,
                             car_path |-> ArtifactCarPath],
                            PaymentStatus(ex[p].payStatus)))]
              /\ ex' = [ex EXCEPT ![p] = [@ EXCEPT !.paid = TRUE, !.pc = "savecache"]]
         ELSE /\ ws' = ws
              /\ ex' = [ex EXCEPT ![p] = main([@ EXCEPT !.pc = "failed",
                          !.fatal = "publish"])]
  /\ UNCHANGED <<cfg, chan, balance, started, overlap, expiries, call>>

\* lines 379-413: the paid publish, createArtifacts and the context update
UploadCarToFilecoin(p) ==
  /\ ex[p].pc = "publish"
  /\ \E ok \in BOOLEAN :
       IF ok
         THEN /\ ws' = [ws EXCEPT ![p] =
                   mergeAndSaveContext([@ EXCEPT !.pin = TRUE],
                     Spread([piece_cid |-> PieceCid(ex[p].rootCid),
                             data_set_id |-> DataSetId,
                             upload_status |-> "uploaded",
                             metadata_path |-> ArtifactMetaPath,
                             car_path |-> ArtifactCarPath],
                            PaymentStatus(ex[p].payStatus)))]
              /\ ex' = [ex EXCEPT ![p] = [@ EXCEPT !.paid = TRUE, !.pc = "savecache"]]
         ELSE /\ ws' = ws
              /\ ex' = [ex EXCEPT ![p] = main([@ EXCEPT !.pc = "failed",
                          !.fatal = "publish"])]
  /\ UNCHANGED <<cfg, chan, balance, started, overlap, expiries, call>>

\* artifacts.js saveCache: a failed save is logged and swallowed
saveCache(ch, w, cacheKey, run, env, ok) ==
  IF ~ensureRuntimeToken(env) \/ ~ok THEN ch
  ELSE uploadArtifact(ch, Artifact(CacheName(cacheKey), run, "action-context",
                                   DirOf(w), EmptyCtx))

\* The cache bundle saved before the paid publish was made
SaveCache_BeforePublish(p) ==
  /\ ex[p].pc = "publish"
  /\ chan' = saveCache(chan, ws[p], CacheKey(ex[p].rootCid), UpRun(p), Env, TRUE)
  /\ chan' # chan
  /\ UNCHANGED <<cfg, balance, ws, ex, started, overlap, expiries, call>>

\* line 416
SaveCache(p) ==
  /\ ex[p].pc = "savecache"
  /\ \E ok \in BOOLEAN :
       chan' = saveCache(chan, ws[p], CacheKey(ex[p].rootCid), UpRun(p), Env, ok)
  /\ ex' = [ex EXCEPT ![p] = [@ EXCEPT !.pc = "result"]]
  /\ UNCHANGED <<cfg, balance, ws, started, overlap, expiries, call>>

\* The upload.json of a result bundle (upload.js lines 385-394)
Metadata(rootCid) ==
  [ipfsRootCid |-> rootCid, pieceCid |-> PieceCid(rootCid), dataSetId |-> DataSetId]

\* The result bundle lost: the upload is skipped and nothing is reported
uploadResultArtifact_Skipped(ch, artifactName, run, meta) == ch

\* artifacts.js uploadResultArtifact
uploadResultArtifact(ch, artifactName, run, meta) ==
  uploadArtifact(ch, Artifact(artifactName, run, "filecoin-pin-artifacts", EmptyDir, meta))

\* lines 418-447: the result bundle, the outputs, the summary
UploadResult(p) ==
  /\ ex[p].pc = "result"
  /\ \E ok \in BOOLEAN :
       IF ok /\ ensureRuntimeToken(Env)
         THEN /\ chan' = uploadResultArtifact(chan, ResultArtifactName(ex[p].rootCid),
                                              UpRun(p), Metadata(ex[p].rootCid))
              /\ ex' = [ex EXCEPT ![p] = [@ EXCEPT !.status = "uploaded",
                          !.bundle = TRUE,
                          !.ctx = loadContext(ws[p]), !.pc = "comment"]]
         ELSE /\ chan' = chan
              /\ ex' = [ex EXCEPT ![p] = main([@ EXCEPT !.pc = "failed",
                          !.fatal = "resultArtifact"])]
  /\ UNCHANGED <<cfg, balance, ws, started, overlap, expiries, call>>

\* comment.js commentOnPR, lines 44-63: whether a comment is posted at all
PostsComment(ctx, env) ==
  /\ Truthy(Get(ctx, "ipfs_root_cid"))
  /\ Truthy(Get(ctx, "data_set_id"))
  /\ Truthy(Get(ctx, "piece_cid"))
  /\ Truthy(Get(ctx, "pr"))
  /\ env.token /\ env.repo

\* upload.js lines 333-348 and 449-462: the PR comment, which ends the
\* process when the request fails (comment.js lines 124-127), and on the
\* fresh path cleanupSynapse after it
CommentOnPR(p) ==
  /\ ex[p].pc = "comment"
  /\ \E ok \in BOOLEAN :
       IF PostsComment(ex[p].ctx, Env) /\ ~ok
         THEN ex' = [ex EXCEPT ![p] = main([@ EXCEPT !.pc = "failed",
                        !.fatal = "comment"])]
         ELSE ex' = [ex EXCEPT ![p] = [@ EXCEPT
                        !.pc = IF Mode("upload") = "all"
                                  /\ UploadEventName(p) = "pull_request"
                                 THEN "allcomment" ELSE "done",
                        !.cleaned = IF ~ex[p].found THEN TRUE ELSE @]]
  /\ UNCHANGED <<cfg, chan, balance, ws, started, overlap, expiries, call>>

\* run.mjs runAll, lines 23-36: in mode all a pull_request run comments once
\* more after runUpload has returned, from the context record of the workspace
RunAllComment(p) ==
  /\ ex[p].pc = "allcomment"
  /\ \E ok \in BOOLEAN :
       IF PostsComment(loadContext(ws[p]), Env) /\ ~ok
         THEN ex' = [ex EXCEPT ![p] = main([@ EXCEPT !.pc = "failed",
                        !.fatal = "comment"])]
         ELSE ex' = [ex EXCEPT ![p] = [@ EXCEPT !.pc = "done"]]
  /\ UNCHANGED <<cfg, chan, balance, ws, started, overlap, expiries, call>>

\* The artifact channel lets an artifact expire at any time.
Expire ==
  /\ expiries < MaxExpiries
  /\ \E a \in chan :
       /\ ~a.expired
       /\ chan' = (chan \ {a}) \cup {[a EXCEPT !.expired = TRUE]}
  /\ expiries' = expiries + 1
  /\ UNCHANGED <<cfg, balance, ws, ex, started, overlap, call>>

\* The payment ledger settles storage charges against the deposit as time
\* passes, until it is used up: getPaymentStatus reads the balance anew in
\* every execution.
Settle ==
  /\ expiries < MaxExpiries
  /\ balance > 0
  /\ balance' = 0
  /\ expiries' = expiries + 1
  /\ UNCHANGED <<cfg, chan, ws, ex, started, overlap, call>>

Next ==
  \/ \E p \in Pipes : runBuild(p)
  \/ \E p \in Pipes : ResolveArtifact(p)
  \/ \E p \in Pipes : DownloadBuild(p)
  \/ \E p \in Pipes : RestoreCache(p)
  \/ \E p \in Pipes : PrepareReuse(p)
  \/ \E p \in Pipes : PayCheck(p)
  \/ \E p \in Pipes : PayDeposit(p)
  \/ \E p \in Pipes : UploadCarToFilecoin(p)
  \/ \E p \in Pipes : SaveCache(p)
  \/ \E p \in Pipes : UploadResult(p)
  \/ \E p \in Pipes : CommentOnPR(p)
  \/ \E p \in Pipes : RunAllComment(p)
  \/ Expire
  \/ Settle

Spec == Init /\ [][Next]_vars

\* ------------------------------------------------------------------------
\* Functions applied on their own: the payment guard with the inputs as the
\* operator writes them, and the stand-alone resolver script
\* (prepare-reuse.js).  Init draws the inputs, the action applies the code.
\* ------------------------------------------------------------------------
\* ethers.parseUnits of the text of a whole amount
parseUnits(raw) == CHOOSE n \in 0..MaxAmount : ToString(n) = raw

\* inputs.js parseInputs: the payment inputs
parseInputs(minDaysRaw, maxBalanceRaw, maxTopUpRaw) ==
  [minDays |-> IF minDaysRaw < 0 THEN 0 ELSE minDaysRaw,
   maxBalance |-> IF maxBalanceRaw # "" THEN parseUnits(maxBalanceRaw) ELSE NoCap,
   maxTopUp |-> IF maxTopUpRaw # "" THEN parseUnits(maxTopUpRaw) ELSE NoCap]

AmountTexts == {""} \cup {ToString(n) : n \in 0..MaxAmount}

PaymentInputs ==
  [fn : {"handlePayments"}, applied : {FALSE},
   depositedAmount : 0..MaxAmount, rate : {Rate},
   minDaysRaw : 0..MaxAmount,
   maxBalanceRaw : AmountTexts, maxTopUpRaw : AmountTexts,
   fail : LedgerFailures]

\* prepare-reuse.js main, lines 25-136.  exit is the exit code of the
\* process; the files unzipped into artifact.tmp are the top-level entries
\* of the artifact.
prepareReuseScript(w, rootCid, ch, env, net) ==
  LET targetName == ResultArtifactName(rootCid)
      listed == {a \in Named(listArtifactsForRepo(ch), targetName) : ~a.expired}
      files == {a.top : a \in listed}
      merged == IF "upload.json" \in files \/ "context.json" \in files
                  THEN mergeAndSaveContext(w, [ipfs_root_cid |-> rootCid])
                  ELSE w
  IN IF ~Truthy(rootCid)
       THEN [exit |-> 0, found |-> FALSE, source |-> "", ws |-> w]
     ELSE IF w.ctx.state \in {"corrupt", "scalar"}
       THEN [exit |-> 1, found |-> FALSE, source |-> "", ws |-> w]
     ELSE IF TierOne(w, rootCid)
       THEN [exit |-> 0, found |-> TRUE, source |-> "context", ws |-> w]
     ELSE IF ~env.token \/ ~env.repo
       THEN [exit |-> 0, found |-> FALSE, source |-> "", ws |-> w]
     ELSE IF net = "listRepoFails"
       THEN [exit |-> 1, found |-> FALSE, source |-> "", ws |-> w]
     ELSE IF listed = {}
       THEN [exit |-> 0, found |-> FALSE, source |-> "", ws |-> w]
     ELSE IF net = "downloadFails"
       THEN [exit |-> 1, found |-> FALSE, source |-> "", ws |-> w]
     ELSE [exit |-> 0, found |-> TRUE, source |-> "artifact", ws |-> merged]

ScriptFiles ==
  {NoFile, CorruptFile, ScalarFile,
   [state |-> "ok", val |-> [ipfs_root_cid |-> "h1"]],
   [state |-> "ok", val |-> [ipfs_root_cid |-> "h1", piece_cid |-> PieceCid("h1"),
                             data_set_id |-> DataSetId]]}

ScriptChannels ==
  {{},
   {Artifact(ResultArtifactName("h1"), 12, "filecoin-pin-artifacts", EmptyDir,
             Metadata("h1"))},
   {[Artifact(ResultArtifactName("h1"), 12, "filecoin-pin-artifacts", EmptyDir,
              Metadata("h1")) EXCEPT !.expired = TRUE]}}

ScriptInputs ==
  [fn : {"prepareReuseScript"}, applied : {FALSE},
   file : ScriptFiles, car : BOOLEAN, rootCid : {"", "h1"}, ch : ScriptChannels,
   env : {FullEnv, [FullEnv EXCEPT !.token = FALSE]},
   net : {"ok", "listRepoFails", "downloadFails"}]

\* Stored files and partial records for the context store.  A partial can
\* hold a field whose value is undefined (build.js passes car_size so).
CtxKeys == {"ipfs_root_cid", "upload_status", "car_size"}

RecordsOver(keys, values) == UNION {[d -> values] : d \in SUBSET keys}

StoredFiles ==
  {NoFile, CorruptFile, ScalarFile, ArrayFile}
    \cup {[state |-> "ok", val |-> r] : r \in RecordsOver(CtxKeys, {"v1", "v2"})}

LoadInputs == [fn : {"loadContext"}, applied : {FALSE}, file : StoredFiles]

MergeInputs ==
  [fn : {"mergeAndSaveContext"}, applied : {FALSE}, file : StoredFiles,
   p1 : RecordsOver(CtxKeys, {"v1", Undefined}),
   p2 : RecordsOver(CtxKeys, {"v2", Undefined})]

\* Event names and payloads for the identity resolver; the three places a PR
\* number can sit in hold three different numbers
EventNames == {"pull_request", "pull_request_target", "push", "workflow_run", "schedule"}

IdentityInputs ==
  [fn : {"determineArtifactName"}, applied : {FALSE},
   manualOverride : {"", "my-artifact"},
   eventName : EventNames,
   pull_request : {0, PrNumber},
   head_commit : {<<>>, <<"fix typo">>, <<"Merge pull request #", PrNumber + 1>>},
   wf_pr : {0, PrNumber + 2},
   runId : {0, 11}]

InitFn ==
  /\ cfg = [topology |-> "split", rerun |-> FALSE, build |-> "build.js",
            trigger |-> "pull_request", pay |-> NoCaps, other |-> FALSE,
            forged |-> FALSE, nohash |-> FALSE]
  /\ chan = {}
  /\ balance = 0
  /\ ws = [p \in Pipes |-> EmptyWs]
  /\ ex = [p \in Pipes |-> InitEx]
  /\ started = 0
  /\ overlap = FALSE
  /\ expiries = 0
  /\ call \in PaymentInputs \cup ScriptInputs \cup IdentityInputs
                \cup LoadInputs \cup MergeInputs

ApplyHandlePayments ==
  /\ call.fn = "handlePayments"
  /\ ~call.applied
  /\ LET options == parseInputs(call.minDaysRaw, call.maxBalanceRaw, call.maxTopUpRaw)
         status == [depositedAmount |-> call.depositedAmount, rate |-> call.rate]
     IN call' = [fn |-> "handlePayments", applied |-> TRUE,
                 status |-> status, options |-> options, fail |-> call.fail,
                 result |-> handlePayments(status, options, call.fail)]
  /\ UNCHANGED <<cfg, chan, balance, ws, ex, started, overlap, expiries>>

ApplyPrepareReuseScript ==
  /\ call.fn = "prepareReuseScript"
  /\ ~call.applied
  /\ LET w == [EmptyWs EXCEPT !.ctx = call.file, !.car = call.car]
     IN call' = [fn |-> "prepareReuseScript", applied |-> TRUE,
                 file |-> call.file, net |-> call.net,
                 result |-> prepareReuseScript(w, call.rootCid, call.ch, call.env,
                                               call.net)]
  /\ UNCHANGED <<cfg, chan, balance, ws, ex, started, overlap, expiries>>

\* determineArtifactName with GITHUB_EVENT_NAME, GITHUB_RUN_ID, the
\* artifact_name input and the event payload as drawn
ApplyDetermineArtifactName ==
  /\ call.fn = "determineArtifactName"
  /\ ~call.applied
  /\ LET event == [pull_request |-> call.pull_request, fork |-> FALSE,
                   head_commit |-> call.head_commit, wf_pr |-> call.wf_pr,
                   wf_id |-> 0]
     IN call' = [fn |-> "determineArtifactName", applied |-> TRUE,
                 manualOverride |-> call.manualOverride,
                 eventName |-> call.eventName, event |-> event,
                 runId |-> call.runId,
                 result |-> determineArtifactName(call.eventName, call.runId,
                                                  call.manualOverride, event)]
  /\ UNCHANGED <<cfg, chan, balance, ws, ex, started, overlap, expiries>>

\* loadContext on a workspace whose context.json is as drawn
ApplyLoadContext ==
  /\ call.fn = "loadContext"
  /\ ~call.applied
  /\ call' = [fn |-> "loadContext", applied |-> TRUE, file |-> call.file,
              result |-> loadContext([EmptyDir EXCEPT !.ctx = call.file])]
  /\ UNCHANGED <<cfg, chan, balance, ws, ex, started, overlap, expiries>>

\* mergeAndSaveContext on a workspace whose context.json is as drawn: p1
\* once, p1 twice, p1 then p2, p2 then p1; each result is the file left.
\* returned is what the first call returns, loaded what loadContext reads
\* after it.
ApplyMergeAndSaveContext ==
  /\ call.fn = "mergeAndSaveContext"
  /\ ~call.applied
  /\ LET dir == [EmptyDir EXCEPT !.ctx = call.file]
         once == mergeAndSaveContext(dir, call.p1)
     IN call' = [fn |-> "mergeAndSaveContext", applied |-> TRUE,
                 file |-> call.file, p1 |-> call.p1, p2 |-> call.p2,
                 once |-> once.ctx,
                 returned |-> Merged(dir, call.p1),
                 loaded |-> loadContext(once),
                 twice |-> mergeAndSaveContext(once, call.p1).ctx,
                 p1p2 |-> mergeAndSaveContext(once, call.p2).ctx,
                 p2p1 |-> mergeAndSaveContext(mergeAndSaveContext(dir, call.p2),
                                              call.p1).ctx]
  /\ UNCHANGED <<cfg, chan, balance, ws, ex, started, overlap, expiries>>

NextFn ==
  \/ ApplyHandlePayments
  \/ ApplyPrepareReuseScript
  \/ ApplyDetermineArtifactName
  \/ ApplyLoadContext
  \/ ApplyMergeAndSaveContext

SpecFn == InitFn /\ [][NextFn]_vars

\* ------------------------------------------------------------------------
\* Properties
\* ------------------------------------------------------------------------
ReusedStatuses == {"reused-cache", "reused-artifact"}

\* C1: when upload executions for one content hash run one after the other
\* and no artifact has expired, at most one of them performs the paid
\* publish; every later one ends with status reused-cache or reused-artifact.
C1_AtMostOnePaidUpload ==
  \A p \in Pipes : \A q \in Pipes \ {p} :
    ( /\ ex[p].pc = "done" /\ ex[q].pc = "done"
      /\ ex[p].rootCid = ex[q].rootCid
      /\ ex[p].order < ex[q].order
      /\ ~overlap /\ expiries = 0
      /\ ex[p].paid )
    => (~ex[q].paid /\ ex[q].status \in ReusedStatuses)

\* C2: the name under which the build published its bundle and the name the
\* upload resolves are the same, for every trigger, when the upload is
\* triggered by the completion of the build workflow.
C2_NamesAgree ==
  \A p \in Pipes :
    (cfg.topology = "split" /\ ex[p].name # "") => ex[p].name = ex[p].published

\* C3: with maxTopUp set, handlePayments never deposits more than maxTopUp;
\* a required top-up above it moves nothing and ends in an error, which is
\* the cap error when the ledger itself did not fail.
C3_TopUpCap ==
  (call.fn = "handlePayments" /\ call.applied /\ call.options.maxTopUp # NoCap)
    => /\ call.result.deposited <= call.options.maxTopUp
       /\ call.result.required > call.options.maxTopUp
            => /\ call.result.deposited = 0
               /\ call.result.threw # "none"
               /\ call.fail = "none" => call.result.threw = "cap"

C3_Witness ==
  /\ call.fn = "handlePayments" /\ call.applied
  /\ call.options.maxTopUp # NoCap
  /\ call.result.required > call.options.maxTopUp
  /\ call.result.threw = "cap"
  /\ call.result.deposited = 0

\* C4: for every maxBalance the operator sets, a balance at or above it
\* means no deposit, and a deposit never takes the balance above it.
C4_BalanceCap ==
  (call.fn = "handlePayments" /\ call.applied /\ call.options.maxBalance # NoCap)
    => /\ call.status.depositedAmount >= call.options.maxBalance
            => call.result.deposited = 0
       /\ call.status.depositedAmount < call.options.maxBalance
            => call.status.depositedAmount + call.result.deposited
                 <= call.options.maxBalance

\* C5 as stated: every failure of the payment guard is fatal; the execution
\* fails and reports no successful status.
C5_PaymentFailureFatal ==
  \A p \in Pipes :
    ex[p].payThrew # "none"
      => (ex[p].pc = "failed" /\ ex[p].status \notin ReusedStatuses \cup {"uploaded"})

\* C5 amended: a failure of the payment guard is fatal on the fresh path,
\* where nothing was reused, and nothing is published after it; on the reuse
\* path it is a warning and the execution ends with its reused status.
C5_FreshPaymentFailureFatal ==
  \A p \in Pipes :
    ex[p].payThrew # "none"
      => IF ex[p].found
           THEN /\ ex[p].pc \in {"comment", "allcomment", "done"} \/ ex[p].fatal = "comment"
                /\ ex[p].status \in ReusedStatuses /\ ~ex[p].paid
           ELSE /\ ex[p].pc = "failed" /\ ex[p].fatal \in {"ledger", "cap"}
                /\ ex[p].status = "" /\ ~ex[p].paid

C5_Witness ==
  \E p \in Pipes :
    ex[p].payThrew # "none" /\ ~ex[p].found /\ ex[p].carPath # "" /\ ex[p].pc = "failed"

\* C6: across workflow runs, a result bundle that is listed, not expired and
\* readable makes the resolver return found with source "artifact"; the
\* execution ends reused-artifact without a paid publish.
C6_CrossRunReuse ==
  \A p \in Pipes :
    ex[p].t2 \in {"lookupFails", "wiped", "merged"}
      => /\ ex[p].found /\ ex[p].source = "artifact"
         /\ ex[p].pc = "done" => (ex[p].status = "reused-artifact" /\ ~ex[p].paid)

\* C7: a result bundle that has expired, or that is listed but cannot be
\* fetched, is the same as no bundle: the resolver reports not found, and the
\* execution goes on to a fresh paid publish.
C7_UnreadableIsMiss ==
  \A p \in Pipes :
    /\ ex[p].t2 \in {"expired", "fetchFails"}
         => /\ ~ex[p].found /\ ex[p].source = "null"
            /\ ex[p].carPath # ""
            /\ ex[p].pc = "done" => (ex[p].paid /\ ex[p].status = "uploaded")
    /\ ex[p].pc = "reuse"
         => \A net \in NetOutcomes :
              LET r == prepareReuse(ws[p], ex[p].rootCid, ex[p].buildRunId, chan, Env, net)
                  none == {a \in chan : a.name # ResultArtifactName(ex[p].rootCid)}
                  r0 == prepareReuse(ws[p], ex[p].rootCid, ex[p].buildRunId, none, Env, "ok")
              IN r.t2 \in {"expired", "fetchFails"}
                   => /\ r.found = r0.found /\ r.source = r0.source
                      /\ r.threw = r0.threw
                      /\ r.ws.ctx = r0.ws.ctx /\ r.ws.car = r0.ws.car

C7_Witness ==
  \E p \in Pipes :
    ex[p].t2 = "expired" /\ ex[p].pc = "done" /\ ex[p].paid /\ ex[p].status = "uploaded"

\* C8: the stand-alone resolver never fails; whatever the local record and
\* the artifact service do, it exits with code 0 and a found/not-found answer.
C8_ResolverNeverFails ==
  (call.fn = "prepareReuseScript" /\ call.applied) => call.result.exit = 0

\* C9: when the local record already holds the hash with a piece id and a
\* data-set id, the resolver returns found with source "context" and does
\* not ask the artifact channel, whatever bundles the channel holds.
C9_TierOneWins ==
  \A p \in Pipes :
    /\ ex[p].t1 => (ex[p].found /\ ex[p].source = "context" /\ ex[p].t2 = "skipped")
    /\ (ex[p].pc = "reuse" /\ TierOne(ws[p], ex[p].rootCid))
         => \A net \in NetOutcomes \cup {"listRepoFails"} :
              prepareReuse(ws[p], ex[p].rootCid, ex[p].buildRunId, chan, Env, net)
                = [found |-> TRUE, source |-> "context", ws |-> ws[p],
                   threw |-> FALSE, t2 |-> "skipped"]

C9_Witness ==
  \E p \in Pipes :
    /\ ex[p].t1 /\ ex[p].found /\ ex[p].source = "context"
    /\ \E a \in chan : a.name = ResultArtifactName(ex[p].rootCid) /\ ~a.expired

\* C10: nothing holds back a paid publish: an execution that has reached the
\* publish step can always take it, also when another execution has already
\* published the same hash, so two overlapping executions both pay.
C10_NoLock ==
  \A p \in Pipes : ex[p].pc = "publish" => ENABLED UploadCarToFilecoin(p)

C10_Witness ==
  \E p \in Pipes : \E q \in Pipes \ {p} :
    /\ overlap
    /\ ex[p].rootCid = ex[q].rootCid
    /\ ex[p].paid /\ ex[q].paid
    /\ ~ex[p].found /\ ~ex[q].found

\* An execution of pipeline p whose upload has not started: only its build
\* step has run
BuildEnded(p) == ex[p].order = 0 /\ ex[p].pc # "build"

Blocked(p) ==
  ex[p].fetched /\ Get(ex[p].ctx, "upload_status") = "fork-pr-blocked"

\* C12: blocked is terminal and spends nothing: an upload execution whose
\* fetched build context says fork-pr-blocked has ended, with output status
\* fork-pr-blocked, without a cache restore, a reuse resolution, a payment
\* session, a payment-guard call, a deposit, a paid publish or a result
\* bundle.
C12_BlockedSpendsNothing ==
  \A p \in Pipes :
    Blocked(p)
      => /\ ex[p].pc = "done" /\ ex[p].status = "fork-pr-blocked"
         /\ ex[p].cache = "none"
         /\ ex[p].t2 = "none" /\ ~ex[p].t1 /\ ~ex[p].found
         /\ ex[p].payCalls = 0 /\ ~ex[p].session /\ ex[p].deposited = 0
         /\ ~ex[p].paid /\ ~ex[p].bundle

C12_Witness ==
  \E p \in Pipes :
    /\ Blocked(p) /\ ex[p].pc = "done" /\ ex[p].status = "fork-pr-blocked"
    /\ ex[p].order > 0 /\ ex[p].rootCid # ""

\* The execution of pipeline p has published filecoin-pin-{content hash}
PublishedResult(p) ==
  /\ ex[p].bundle
  /\ \E a \in chan : a.name = ResultArtifactName(ex[p].rootCid) /\ a.run = UpRun(p)

C14_InProcessHandoff ==
  cfg.topology = "all"
    => \A p \in Pipes :
         /\ ~ex[p].fetched
         /\ ex[p].fatal \notin {"noBuildRunId", "download"}

\* C15: an execution exits non-zero only for a configuration error (a missing
\* wallet key, no build run id), a payment-ledger failure, a top-up above
\* the cap or a failed paid publish; a missing, expired or unreadable bundle
\* and a failed call to the artifact channel never fail it.
C15_OnlyFatalErrors ==
  \A p \in Pipes :
    ex[p].pc = "failed"
      => ex[p].fatal \in {"config", "noBuildRunId", "ledger", "cap", "publish"}

\* C16: every execution that ends with a fatal error after it opened a
\* payment-client session has called cleanupSynapse before the process exits.
C16_CleanupOnFatal ==
  \A p \in Pipes :
    (ex[p].pc = "failed" /\ ex[p].session) => ex[p].cleaned

\* C17: an execution that reuses re-validates the balance and makes no
\* deposit to the payment ledger.
C17_ReuseNoDeposit ==
  \A p \in Pipes : ex[p].found => ex[p].deposited = 0

\* C18: an execution calls handlePayments at most once, and with maxTopUp set
\* what it deposits to the payment ledger in total is at most maxTopUp.
C18_DrainBound ==
  \A p \in Pipes :
    /\ ex[p].payCalls <= 1
    /\ cfg.pay.maxTopUp # NoCap => ex[p].deposited <= cfg.pay.maxTopUp

C18_Witness ==
  \E p \in Pipes :
    /\ cfg.pay.maxTopUp # NoCap
    /\ ex[p].payCalls = 1 /\ ex[p].pc = "done"
    /\ ex[p].deposited > 0 /\ ex[p].deposited = cfg.pay.maxTopUp

PrName(n) == "filecoin-build-pr-" \o ToString(n)

C20_PostMergeIdentity ==
  \A p \in Pipes :
    (ex[p].published # "" /\ ex[p].trigger \in PullRequestTriggers \cup {"push_merge"})
      => ex[p].published = PrName(PrNumber)

\* The result bundles on the channel
ResultBundles == {a \in chan : a.top = "filecoin-pin-artifacts"}

\* C21: the reuse identity depends on the content hash only: the name an
\* execution looks a result bundle up under is the name of exactly the
\* bundles published for the same hash, whichever run published them, and
\* that name is filecoin-pin-{hash}.
C21_ReuseIdentity ==
  \A p \in Pipes : \A a \in ResultBundles :
    ex[p].rootCid # ""
      => /\ (a.name = TargetName(ex[p].rootCid)) <=> (a.meta.ipfsRootCid = ex[p].rootCid)
         /\ a.name = "filecoin-pin-" \o a.meta.ipfsRootCid

C21_Witness ==
  \E p \in Pipes : \E a \in ResultBundles :
    /\ a.run # UpRun(p) /\ a.meta.ipfsRootCid = ex[p].rootCid
    /\ a.name = TargetName(ex[p].rootCid)
    /\ ex[p].t2 \in {"expired", "fetchFails", "lookupFails", "wiped", "merged"}

\* C22: loadContext never fails and returns an empty record when there is no
\* context file, when its text is not parsable JSON and when the parsed
\* value is not a record.
C22_LoadNeverFails ==
  (call.fn = "loadContext" /\ call.applied)
    => /\ call.file.state = "ok" => call.result = call.file.val
       /\ call.file.state # "ok" => call.result = EmptyCtx

\* The keys a stored file or a partial of the inputs can hold
AllCtxKeys == CtxKeys \cup {"0"}

\* C23: after mergeAndSaveContext(P) on an existing record E the persisted
\* record reads, for every key of P, the value of P, for every other key of
\* E the value of E, and holds no other key.
C23_MergeOverwriteUnion ==
  (call.fn = "mergeAndSaveContext" /\ call.applied)
    => LET E == call.file.val
           P == call.p1
           R == call.once
       IN /\ R.state = "ok"
          /\ DOMAIN R.val \subseteq (DOMAIN P) \cup (DOMAIN E)
          /\ \A k \in AllCtxKeys :
               Get(R.val, k) = IF k \in DOMAIN P THEN P[k] ELSE Get(E, k)

C23_Witness ==
  /\ call.fn = "mergeAndSaveContext" /\ call.applied
  /\ call.file.state = "ok"
  /\ \E k \in DOMAIN call.p1 :
       k \in DOMAIN call.file.val /\ call.p1[k] = "v1" /\ call.file.val[k] = "v2"
         /\ call.once.val[k] = "v1"
  /\ \E k \in DOMAIN call.file.val : k \notin DOMAIN call.p1 /\ k \in DOMAIN call.once.val
  /\ \E k \in DOMAIN call.p1 : k \notin DOMAIN call.file.val /\ k \in DOMAIN call.once.val

\* C24: mergeAndSaveContext(P) applied twice leaves the persisted record that
\* applying it once leaves.
C24_MergeIdempotent ==
  (call.fn = "mergeAndSaveContext" /\ call.applied) => call.twice = call.once

C24_Witness ==
  /\ call.fn = "mergeAndSaveContext" /\ call.applied
  /\ call.file.state = "ok" /\ call.once # call.file
  /\ \E k \in DOMAIN call.p1 : call.p1[k] = Undefined /\ k \in DOMAIN call.file.val
  /\ call.twice = call.once

\* C25: for partials P1 and P2 that share no key, merging P1 then P2 leaves
\* the persisted record that merging P2 then P1 leaves.
C25_DisjointMergesCommute ==
  (call.fn = "mergeAndSaveContext" /\ call.applied
     /\ (DOMAIN call.p1) \cap (DOMAIN call.p2) = {})
    => call.p1p2 = call.p2p1

C25_Witness ==
  /\ call.fn = "mergeAndSaveContext" /\ call.applied
  /\ (DOMAIN call.p1) \cap (DOMAIN call.p2) = {}
  /\ DOMAIN call.p1 # {} /\ DOMAIN call.p2 # {}
  /\ \E k \in DOMAIN call.p1 : k \in DOMAIN call.file.val /\ call.p1[k] # call.file.val[k]
  /\ \E k \in DOMAIN call.p2 : k \in DOMAIN call.file.val /\ call.p2[k] # call.file.val[k]
  /\ call.p1p2 = call.p2p1 /\ call.p1p2 # call.once

\* The ipfs_root_cid of the context record in the workspace of pipeline p
RecordRootCid(w) == Get(loadContext(w), "ipfs_root_cid")

\* C26: the content hash is write-once in a pipeline run: the hash its build
\* recorded stays the hash of the run, and whenever a step leaves an
\* ipfs_root_cid in the context record, or the upload reads one from it, it
\* is that hash.
C26_ContentHashWriteOnce ==
  [][\A p \in Pipes :
       /\ ex[p].hash # "" => ex'[p].hash = ex[p].hash
       /\ Truthy(RecordRootCid(ws'[p])) => RecordRootCid(ws'[p]) = ex'[p].hash
       /\ ex'[p].rootCid # "" => ex'[p].rootCid = ex'[p].hash
       /\ (Truthy(RecordRootCid(ws[p])) /\ Truthy(RecordRootCid(ws'[p])))
            => RecordRootCid(ws'[p]) = RecordRootCid(ws[p])]_vars

C26_Witness ==
  \E p \in Pipes : \E q \in Pipes :
    /\ ex[p].hash # ex[q].hash /\ ex[q].hash # ""
    /\ ex[p].cache = "miss" /\ ex[p].pc = "done" /\ ex[p].status = "uploaded"
    /\ RecordRootCid(ws[p]) = ex[p].hash
    /\ \E a \in chan : a.name = ex[p].name /\ a.run # ex[p].buildRunId
                         /\ RecordRootCid(a.dir) = ex[q].hash

\* The upload_status of the context record in a workspace
RecordStatus(w) == Get(loadContext(w), "upload_status")

FinalStatuses == {"uploaded", "reused-cache", "reused-artifact", "fork-pr-blocked"}

\* The step starts the upload of pipeline p as a new process, in a workspace
\* of its own
StartsProcess(p) == ex[p].pc = "built" /\ Mode("upload") # "all"

\* C27: the upload_status of the context record only moves forward: a step
\* of an execution changes it only from unset or build-only, and only to
\* build-only or to one of uploaded, reused-cache, reused-artifact and
\* fork-pr-blocked; once it is one of these four no step changes it.
C27_StatusOnlyForward ==
  [][\A p \in Pipes :
       (~StartsProcess(p) /\ RecordStatus(ws'[p]) # RecordStatus(ws[p]))
         => /\ RecordStatus(ws[p]) \in {Undefined, "build-only"}
            /\ RecordStatus(ws'[p]) \in FinalStatuses \cup {"build-only"}]_vars

\* C28: merge is the only mutation path of the context record: whenever a
\* step of an execution changes action-context/context.json, the file it
\* leaves is the result of a merge into the record that was there, so it
\* is a readable record that still holds every key the record held; no
\* step deletes or replaces the file.
C28_MergeOnlyMutation ==
  [][\A p \in Pipes :
       (~StartsProcess(p) /\ ws'[p].ctx # ws[p].ctx)
         => /\ ws'[p].ctx.state = "ok"
            /\ DOMAIN loadContext(ws[p]) \subseteq DOMAIN loadContext(ws'[p])]_vars

\* C29: the top-up cap is checked against the amount after the balance-cap
\* clamp.  With maxBalance set, the required top-up is clamped to maxBalance
\* minus the current balance (to 0 when the balance is at or above
\* maxBalance); a requirement above maxTopUp whose clamped amount is at most
\* maxTopUp is not rejected and, the ledger working, the clamped amount is
\* what is deposited; a requirement clamped to 0 is never rejected.
C29_CapAfterClamp ==
  (call.fn = "handlePayments" /\ call.applied /\ call.options.maxBalance # NoCap
     /\ call.options.maxTopUp # NoCap)
    => LET raw == IF call.options.minDays > 0
                    THEN computeTopUpForDuration(call.status, call.options.minDays)
                    ELSE 0
           room == call.options.maxBalance - call.status.depositedAmount
           clamped == IF room <= 0 THEN 0 ELSE IF raw > room THEN room ELSE raw
       IN /\ (raw > call.options.maxTopUp /\ clamped <= call.options.maxTopUp)
               => /\ call.result.threw # "cap"
                  /\ call.fail = "none" => call.result.deposited = clamped
          /\ clamped = 0 => call.result.threw # "cap"

\* C30: a paid publish is always preceded by a successful payment guard:
\* an execution that is about to call uploadCarToFilecoin, or has called
\* it, holds a session, its handlePayments was called and returned without
\* an error, nothing was reused, and the context it loaded held a non-empty
\* ipfs_root_cid.
C30_PublishAfterPaymentGuard ==
  \A p \in Pipes :
    (ex[p].pc = "publish" \/ ex[p].paid)
      => /\ ex[p].session
         /\ ex[p].payCalls = 1
         /\ ex[p].payThrew = "none"
         /\ ex[p].payStatus >= 0
         /\ ~ex[p].found
         /\ ex[p].fetched
         /\ Truthy(ex[p].rootCid)
         /\ Get(ex[p].ctx, "ipfs_root_cid") = ex[p].rootCid

C30_Witness ==
  \E p \in Pipes :
    /\ ex[p].paid /\ ex[p].pc = "done" /\ ex[p].status = "uploaded"
    /\ ex[p].payCalls = 1 /\ ex[p].payThrew = "none"
    /\ ex[p].deposited > 0
    /\ ex[p].rootCid \in Hashes

\* C31: a reuse decision implies a usable record: in every execution whose
\* resolver returned found, the context record in its workspace holds a
\* non-empty piece_cid and data_set_id, and its ipfs_root_cid is the hash
\* the resolver was asked for.
C31_ReuseImpliesUsableRecord ==
  \A p \in Pipes :
    ex[p].found
      => /\ ws[p].ctx.state = "ok"
         /\ Truthy(Get(loadContext(ws[p]), "piece_cid"))
         /\ Truthy(Get(loadContext(ws[p]), "data_set_id"))
         /\ Get(loadContext(ws[p]), "ipfs_root_cid") = ex[p].rootCid
         /\ ex[p].rootCid \in Hashes

C31_Witness ==
  \E p \in Pipes :
    /\ ex[p].found /\ ex[p].source = "context" /\ ex[p].pc = "rpay"
    /\ ex[p].cache = "hit"
    /\ Get(loadContext(ws[p]), "piece_cid") = PieceCid(ex[p].rootCid)
    /\ Get(loadContext(ws[p]), "ipfs_root_cid") = ex[p].rootCid

\* C32: a miss leaves the record untouched: when the resolver of an
\* execution returns not found, the context record and the archive file in
\* action-context are what they were before the resolver ran.
C32_MissLeavesRecord ==
  [][\A p \in Pipes :
       (ex[p].pc = "reuse" /\ ex'[p].pc # "reuse" /\ ~ex'[p].found)
         => /\ ws'[p].ctx = ws[p].ctx
            /\ ws'[p].car = ws[p].car]_vars

\* C33: reported status equals recorded status: when an upload execution
\* that fetched its build bundle completes, the upload_status it wrote to
\* the outputs is the upload_status stored in the context record of its
\* workspace.
C33_ReportedIsRecorded ==
  \A p \in Pipes :
    (ex[p].pc = "done" /\ ex[p].fetched)
      => RecordStatus(ws[p]) = ex[p].status

\* C34: the published results come from a trusted upload: the piece_cid and
\* data_set_id that an upload execution reports with a reused status are
\* those of a paid publish that some upload execution performed for the same
\* content hash, never fields the build placed in its bundle.
C34_ReusedResultsFromPaidPublish ==
  \A p \in Pipes :
    (ex[p].pc \in {"comment", "done"} /\ ex[p].status \in ReusedStatuses)
      => /\ \E q \in Pipes : ex[q].paid /\ ex[q].rootCid = ex[p].rootCid
         /\ Get(ex[p].ctx, "piece_cid") = PieceCid(ex[p].rootCid)
         /\ Get(ex[p].ctx, "data_set_id") = DataSetId

\* C35: balance cap under concurrency: with maxBalance set, whatever the
\* interleaving of the upload executions that share the ledger, the
\* deposited balance never exceeds maxBalance.
C35_BalanceCapConcurrent ==
  cfg.pay.maxBalance # NoCap => balance <= cfg.pay.maxBalance

\* C35 amended: the balance cap is enforced by each execution on the
\* balance it read.  With a positive maxBalance the deposited balance stays
\* at or below maxBalance as long as no upload execution started while
\* another was running; executions that race on the ledger can together
\* take it above maxBalance.
C35_BalanceCapSequential ==
  (cfg.pay.maxBalance # NoCap /\ cfg.pay.maxBalance > 0 /\ ~overlap)
    => balance <= cfg.pay.maxBalance

C35_Witness ==
  \E p \in Pipes : \E q \in Pipes \ {p} :
    /\ cfg.pay.maxBalance # NoCap /\ ~overlap
    /\ balance = cfg.pay.maxBalance
    /\ ex[p].payCalls = 1 /\ ex[p].deposited = cfg.pay.maxBalance
    /\ ex[p].order < ex[q].order
    /\ ex[q].payCalls = 1 /\ ex[q].payThrew = "none" /\ ex[q].deposited = 0

\* The fields of the context record that say which build it belongs to
IdentityKeys == {"pr", "artifact_name", "build_run_id"}

\* C36: restoring a cache bundle keeps the current build's identity: after
\* a successful restoreCache the pr, artifact_name and build_run_id of the
\* context record are those of the build bundle the execution fetched.
C36_RestoreKeepsIdentity ==
  [][\A p \in Pipes :
       (ex[p].pc = "restore" /\ ex'[p].cache = "hit")
         => \A k \in IdentityKeys :
              Get(loadContext(ws'[p]), k) = Get(loadContext(ws[p]), k)]_vars

C36_Witness ==
  \E p \in Pipes :
    /\ ex[p].cache = "hit" /\ ex[p].pc = "reuse"
    /\ Get(loadContext(ws[p]), "upload_status") = "uploaded"
    /\ Get(loadContext(ws[p]), "build_run_id") = RunStr(ex[p].buildRunId)
    /\ Get(loadContext(ws[p]), "artifact_name") = ex[p].name
    /\ Truthy(Get(loadContext(ws[p]), "pr"))

\* The bundles a later upload can reuse for hash h
ReuseBundles(h) ==
  {a \in chan : a.name \in {ResultArtifactName(h), CacheName(CacheKey(h))}}

\* C37: a reuse bundle always describes a paid upload: a bundle named
\* filecoin-pin-{hash} or cache-filecoin-v1-{hash} is in the channel only
\* when an execution of the run it is attached to made the paid publish for
\* that hash; the record of a cache bundle holds the merged result of that
\* publish and the metadata of a result bundle names the hash.
C37_ReuseBundleDescribesPaidUpload ==
  \A h \in Hashes : \A a \in ReuseBundles(h) :
    /\ \E p \in Pipes : ex[p].paid /\ ex[p].rootCid = h /\ UpRun(p) = a.run
    /\ a.name = CacheName(CacheKey(h))
         => /\ Get(loadContext(a.dir), "ipfs_root_cid") = h
            /\ Get(loadContext(a.dir), "piece_cid") = PieceCid(h)
            /\ Get(loadContext(a.dir), "data_set_id") = DataSetId
            /\ Get(loadContext(a.dir), "upload_status") = "uploaded"
    /\ a.name = ResultArtifactName(h)
         => /\ Get(a.meta, "ipfsRootCid") = h
            /\ Get(a.meta, "pieceCid") = PieceCid(h)

C37_Witness ==
  \E h \in Hashes : \E a \in ReuseBundles(h) : \E b \in ReuseBundles(h) :
    /\ a.name = CacheName(CacheKey(h)) /\ b.name = ResultArtifactName(h)
    /\ a.run = b.run
    /\ \E p \in Pipes : ex[p].paid /\ ex[p].rootCid = h /\ ex[p].pc = "done"
                          /\ UpRun(p) = a.run

\* C38: a build bundle without a content hash stops the upload early: an
\* execution that fetched a build bundle whose context holds no
\* ipfs_root_cid, and is not blocked, has failed for that reason without a
\* cache restore, a reuse lookup, a payment-guard call or a paid publish.
C38_NoHashStopsEarly ==
  \A p \in Pipes :
    (ex[p].fetched /\ ex[p].rootCid = "" /\ ex[p].status # "fork-pr-blocked")
      => /\ ex[p].pc = "failed" /\ ex[p].fatal = "noRootCid"
         /\ ex[p].cache = "none"
         /\ ex[p].t2 = "none" /\ ~ex[p].t1 /\ ~ex[p].found
         /\ ~ex[p].session /\ ex[p].payCalls = 0 /\ ex[p].deposited = 0
         /\ ~ex[p].paid /\ ~ex[p].bundle

C38_Witness ==
  \E p \in Pipes :
    /\ ex[p].fetched /\ ex[p].rootCid = "" /\ ex[p].status # "fork-pr-blocked"
    /\ ws[p].ctx = CorruptFile /\ ws[p].car
    /\ ex[p].pc = "failed" /\ ex[p].fatal = "noRootCid" /\ ex[p].cleaned

\* C39 as stated: merge returns what it stored: for every stored file and
\* every partial, also one with keys whose value is undefined, the record
\* mergeAndSaveContext returns is the record the next loadContext returns.
C39_MergeReturnsStored ==
  (call.fn = "mergeAndSaveContext" /\ call.applied)
    => call.returned = call.loaded

\* C39 amended: the record mergeAndSaveContext returns and the record the
\* next loadContext returns give the same value for every key; the record
\* loaded holds exactly the keys of the returned record whose value is not
\* undefined, so a key merged as undefined is in the returned record and
\* not in the stored one.
C39_MergeReadsAsStored ==
  (call.fn = "mergeAndSaveContext" /\ call.applied)
    => /\ \A k \in AllCtxKeys : Get(call.returned, k) = Get(call.loaded, k)
       /\ DOMAIN call.loaded
            = {k \in DOMAIN call.returned : call.returned[k] # Undefined}

C39_Witness ==
  /\ call.fn = "mergeAndSaveContext" /\ call.applied
  /\ call.file.state = "ok"
  /\ \E k \in DOMAIN call.p1 :
       /\ call.p1[k] = Undefined
       /\ k \in DOMAIN call.file.val
       /\ k \in DOMAIN call.returned /\ k \notin DOMAIN call.loaded
  /\ \E k \in DOMAIN call.p1 : call.p1[k] # Undefined /\ call.loaded[k] = call.p1[k]

====
